---- MODULE Spec2Model ----
(***************************************************************************)
(* Model of multi_file_combiner.py: a ZIP archive of CSV exports is        *)
(* filtered for candidate files, every candidate is read, reconciled and   *)
(* normalised in turn, and the surviving rows are combined, sorted and     *)
(* exported.                                                               *)
(*                                                                         *)
(* Strings are modelled as sequences of tokens (a token is a run of         *)
(* characters that the program's string tests never split): an archive name *)
(* "data/b.CSV" is <<"data/", "b", ".CSV">>, a column header               *)
(* "M1 - Consumption Recorded (MWh)" is <<"M1", SUFFIX>>.                  *)
(***************************************************************************)
EXTENDS Integers, Sequences, FiniteSets, TLC

\* ------------------------------------------------------------------ bounds
\* Longest archive listing explored.
MaxEntries == 2
\* Most data rows in one CSV file.
MaxRows == 2

\* ------------------------------------------------------- generic helpers
Range(s) == {s[i] : i \in 1..Len(s)}

RECURSIVE SeqsUpTo(_, _)
\* All sequences over S of length 0..n.
SeqsUpTo(S, n) ==
  IF n = 0 THEN {<<>>}
  ELSE LET shorter == SeqsUpTo(S, n - 1)
       IN shorter \cup {Append(s, x) : s \in {t \in shorter : Len(t) = n - 1}, x \in S}

\* ------------------------------------------------- strings of the archive
\* str.lower() on the tokens that occur in names and headers.
Lower(tok) ==
  CASE tok = ".CSV" -> ".csv"
    [] tok = "__MACOSX/" -> "__macosx/"
    [] tok = "Timestamp" -> "timestamp"
    [] tok = "TIMESTAMP" -> "timestamp"
    [] tok = "Parsed_" -> "parsed_"
    [] tok = "Local " -> "local "
    [] tok = "Time" -> "time"
    [] tok = "M1" -> "m1"
    [] tok = "M2" -> "m2"
    [] tok = " - Consumption Recorded (MWh)" -> " - consumption recorded (mwh)"
    [] OTHER -> tok

\* str.upper() on the tokens that occur in archive names.
Upper(tok) ==
  CASE tok = ".csv" -> ".CSV"
    [] tok = ".txt" -> ".TXT"
    [] tok = "__macosx/" -> "__MACOSX/"
    [] tok = "data/" -> "DATA/"
    [] tok = "a" -> "A"
    [] tok = "b" -> "B"
    [] tok = "._a" -> "._A"
    [] tok = ".b" -> ".B"
    [] OTHER -> tok

\* The tokens that end a path segment (they end with "/").
DirTokens == {"data/", "__MACOSX/", "__macosx/"}

\* The tokens whose first character is ".".
DotTokens == {".csv", ".CSV", ".txt", "._a", ".b"}

\* f.lower().endswith('.csv')
EndsWithCsv(f) == Len(f) > 0 /\ Lower(f[Len(f)]) = ".csv"

\* 'MACOSX' in f.upper()
ContainsMACOSX(f) == \E i \in 1..Len(f) : Upper(f[i]) = "__MACOSX/"

\* os.path.basename(f): what follows the last "/".
Basename(f) ==
  LET dirs == {i \in 1..Len(f) : f[i] \in DirTokens}
      last == IF dirs = {} THEN 0 ELSE CHOOSE i \in dirs : \A j \in dirs : j <= i
  IN SubSeq(f, last + 1, Len(f))

\* s.startswith('.')
StartsWithDot(s) == Len(s) > 0 /\ s[1] \in DotTokens

\* Faulty variant of IsCandidate: the extension test compares case-sensitively.
IsCandidateCaseSensitive(f) ==
  /\ Len(f) > 0 /\ f[Len(f)] = ".csv"
  /\ ~ContainsMACOSX(f)
  /\ ~StartsWithDot(Basename(f))

\* The filter of the csv_files comprehension.
IsCandidate(f) ==
  /\ EndsWithCsv(f)
  /\ ~ContainsMACOSX(f)
  /\ ~StartsWithDot(Basename(f))

\* csv_files: the candidates, in listing order.
CsvFiles(names) == SelectSeq(names, IsCandidate)

\* Archive entry names the listing is drawn from.
EntryNames ==
  { <<"a", ".csv">>,
    <<"data/", "b", ".CSV">>,
    <<"__MACOSX/", "._a", ".csv">>,
    <<"__macosx/", "a", ".csv">>,
    <<"data/", ".b", ".csv">>,
    <<"a", ".txt">> }

\* --------------------------------------------------------- file contents
\* The suffix removed from meter headers.
SUFFIX == " - Consumption Recorded (MWh)"

\* The label of the column of parsed instants.
ParsedTimestamp == <<"Parsed_", "Timestamp">>

\* An empty CSV cell: read_csv(dtype=str) yields a float NaN for it.
EmptyCell == ""

\* The None/NaT entry that stands for a timestamp that did not parse.
NaT == -1

\* The encodings tried, in order.
Encodings == <<"utf-8", "latin1", "cp1252", "iso-8859-1">>

\* The format passed to datetime.strptime (both attempts use the same one).
timestamp_format == "%A, %B %d, %Y %H:%M"

TS1 == "Thursday, January 02, 2025 02:30"
TS2 == "Thursday, January 02, 2025 03:00"
TSIso == "2025-01-02 02:30"

\* Timestamp cells of the input files.
TsCells == {TS1, TS2, TSIso, EmptyCell}

\* Meter cells of the input files: a zero, a non-zero number, a non-number.
ValCells == <<"0", "5", "abc">>

\* Headers of the input files.
Headers ==
  { << <<"Timestamp">>, <<"M1", SUFFIX>> >>,
    << <<"M2", SUFFIX>>, <<"Local ", "TIMESTAMP">> >>,
    << <<"Timestamp">>, <<"M1", SUFFIX>>, <<"M2">> >>,
    << <<"Time">>, <<"M1", SUFFIX>> >>,
    << <<"Timestamp">> >>,
    << ParsedTimestamp >> }

\* 'timestamp' in col.lower()
HasTimestamp(col) == \E i \in 1..Len(col) : Lower(col[i]) = "timestamp"

\* A CSV file of header h whose timestamp cells are ts, row by row; the cells
\* of the other columns run through ValCells down the rows, from the first
\* entry in the first two columns, from the second in a third column.
\* bytes tells which encodings decode the file.
MkFile(bytes, h, ts) ==
  [ bytes |-> bytes, malformed |-> FALSE, columns |-> h,
    rows |-> [r \in 1..Len(ts) |->
                [c \in 1..Len(h) |-> IF HasTimestamp(h[c]) \/ h[c] = <<"Time">>
                                     THEN ts[r]
                                     ELSE ValCells[((r - 1 + (c - 1) \div 2) % Len(ValCells)) + 1]]] ]

\* A file whose rows have differing numbers of fields: read_csv raises
\* pandas.errors.ParserError.
MalformedFile == [bytes |-> "ascii", malformed |-> TRUE, columns |-> <<>>, rows |-> <<>>]

\* The file contents an archive entry may hold: every header with every
\* timestamp column of up to MaxRows cells, the single-column files also with
\* a byte that is invalid UTF-8 ("high"), and a malformed file.
FileSet ==
  LET tss == SeqsUpTo(TsCells, MaxRows)
  IN    {MkFile("ascii", h, ts) : h \in Headers, ts \in tss}
   \cup {MkFile("high", <<ParsedTimestamp>>, ts) : ts \in tss}
   \cup {MalformedFile}

\* ----------------------------------------------------------- TableLoader
\* Whether decoding the bytes with enc raises no UnicodeDecodeError.
Decodes(enc, bytes) ==
  CASE enc = "utf-8" -> bytes = "ascii"
    [] enc = "cp1252" -> bytes = "ascii"
    [] OTHER -> TRUE

\* The for/break/else over the encodings: the index of the first encoding that
\* decodes the file, 0 when the loop runs to its else branch.
FirstEncoding(f) ==
  LET ok == {i \in 1..Len(Encodings) : Decodes(Encodings[i], f.bytes)}
  IN IF ok = {} THEN 0 ELSE CHOOSE i \in ok : \A j \in ok : i <= j

\* pd.read_csv(csv_file, encoding=encoding, dtype=str)
ReadCsv(f) ==
  IF f.malformed THEN [exc |-> "ParserError", df |-> [columns |-> <<>>, rows |-> <<>>]]
  ELSE [exc |-> "none", df |-> [columns |-> f.columns, rows |-> f.rows]]

\* ------------------------------------------------------ ColumnReconciler
\* The loop that finds timestamp_col: the index of the first column whose
\* lower-cased name contains 'timestamp', 0 when there is none.
FindTimestampCol(columns) ==
  LET hit == {i \in 1..Len(columns) : HasTimestamp(columns[i])}
  IN IF hit = {} THEN 0 ELSE CHOOSE i \in hit : \A j \in hit : i <= j

\* df[cols] for a list of column positions.
Reorder(df, order) ==
  [ columns |-> [k \in 1..Len(order) |-> df.columns[order[k]]],
    rows |-> [r \in 1..Len(df.rows) |->
                [k \in 1..Len(order) |-> df.rows[r][order[k]]]] ]

\* cols.remove(timestamp_col); cols.insert(0, timestamp_col); df = df[cols]
MoveFirst(df, i) ==
  LET n == Len(df.columns)
      rest == SelectSeq([k \in 1..n |-> k], LAMBDA k : k # i)
  IN Reorder(df, <<i>> \o rest)

\* col.replace(" - Consumption Recorded (MWh)", "")
StripSuffix(col) == SelectSeq(col, LAMBDA t : t # SUFFIX)

\* The position of the first column labelled name, 0 when there is none.
ColIndex(columns, name) ==
  LET hit == {i \in 1..Len(columns) : columns[i] = name}
  IN IF hit = {} THEN 0 ELSE CHOOSE i \in hit : \A j \in hit : i <= j

\* ['Parsed_Timestamp'] + [col.replace(...) for col in df.columns[1:-1]]
NewColumns(columns) ==
  <<ParsedTimestamp>> \o
  [k \in 1..(IF Len(columns) >= 2 THEN Len(columns) - 2 ELSE 0) |->
      StripSuffix(columns[k + 1])]

\* df.columns = new_columns: pandas raises ValueError (length mismatch) unless
\* the new labels are as many as the columns.
SetColumns(df, new) ==
  IF Len(new) # Len(df.columns)
  THEN [exc |-> "ValueError", df |-> df]
  ELSE [exc |-> "none", df |-> [df EXCEPT !.columns = new]]

\* --------------------------------------------------- TimestampNormalizer
\* datetime.strptime(ts, fmt): TypeError for a cell that is no string (NaN),
\* ValueError for a string that does not match, else the instant in minutes
\* since 2025-01-02 00:00.
Strptime(ts, fmt) ==
  CASE ts = EmptyCell -> [exc |-> "TypeError", value |-> NaT]
    [] fmt = timestamp_format /\ ts = TS1 -> [exc |-> "none", value |-> 150]
    [] fmt = timestamp_format /\ ts = TS2 -> [exc |-> "none", value |-> 180]
    [] OTHER -> [exc |-> "ValueError", value |-> NaT]

\* One pass of the parsing loop's body: the first attempt, and on ValueError
\* the second attempt with the same format.
ParseOne(ts) ==
  LET first == Strptime(ts, timestamp_format)
  IN IF first.exc = "ValueError" THEN Strptime(ts, "%A, %B %d, %Y %H:%M") ELSE first

\* The parsing loop over df[timestamp_col] (column 0 after the reorder).
ParseTimestamps(df) ==
  LET res == [r \in 1..Len(df.rows) |-> ParseOne(df.rows[r][1])]
  IN IF \E r \in 1..Len(res) : res[r].exc = "TypeError"
     THEN [exc |-> "TypeError", parsed |-> <<>>, invalid |-> <<>>]
     ELSE [exc |-> "none",
           parsed |-> [r \in 1..Len(res) |-> res[r].value],
           invalid |-> SelectSeq([r \in 1..Len(res) |-> r],
                                 LAMBDA r : res[r].exc = "ValueError")]

\* df[label] = values: overwrite the column of that label, else append one.
SetItem(df, label, values) ==
  IF ColIndex(df.columns, label) # 0
  THEN [df EXCEPT !.rows = [r \in 1..Len(df.rows) |->
          [c \in 1..Len(df.columns) |->
              IF df.columns[c] = label THEN values[r] ELSE df.rows[r][c]]]]
  ELSE [columns |-> Append(df.columns, label),
        rows |-> [r \in 1..Len(df.rows) |-> Append(df.rows[r], values[r])]]

\* df[df['Parsed_Timestamp'].notna()]
DropInvalid(df) ==
  LET c == ColIndex(df.columns, ParsedTimestamp)
  IN [df EXCEPT !.rows = SelectSeq(df.rows, LAMBDA row : row[c] # NaT)]

\* pd.to_numeric(cell, errors='coerce'): a number, or NaN for anything else.
ToNumeric(cell) ==
  CASE cell = "0" -> [nan |-> FALSE, v |-> 0]
    [] cell = "5" -> [nan |-> FALSE, v |-> 5]
    [] OTHER -> [nan |-> TRUE, v |-> 0]

\* fillna(0) on one value.
FillNa(x) == IF x.nan THEN [nan |-> FALSE, v |-> 0] ELSE x

\* The loop over meter_cols: to_numeric then fillna(0), column by column.
\* df[col] is a DataFrame when the label col is not unique, and to_numeric
\* raises TypeError for it.
ConvertMeters(df) ==
  LET n == Len(df.columns)
      dup == \E i, j \in 2..n : i # j /\ df.columns[i] = df.columns[j]
  IN IF dup THEN [exc |-> "TypeError", df |-> df]
     ELSE [exc |-> "none",
           df |-> [df EXCEPT !.rows = [r \in 1..Len(df.rows) |->
                     [c \in 1..n |-> IF c = 1 THEN df.rows[r][c]
                                     ELSE FillNa(ToNumeric(df.rows[r][c]))]]]]

\* ------------------------------------------------------ per-file pipeline
\* One st.warning / st.error / st.write call: what it reports, the file it
\* names, and the count, exception or example cells it shows.
Msg(level, kind, file) ==
  [level |-> level, kind |-> kind, file |-> file, n |-> 0, exc |-> "none", examples |-> <<>>]

\* The date part, '%Y-%m-%d', of an instant.
Strftime(t) == IF t \div 1440 = 0 THEN "2025-01-02" ELSE "2025-01-03"

\* The smallest and the largest entry of a non-empty sequence of integers.
Min(s) == CHOOSE x \in Range(s) : \A y \in Range(s) : x <= y
Max(s) == CHOOSE x \in Range(s) : \A y \in Range(s) : x >= y

\* The file_info entry of a processed file.
FileInfo(csv_name, df, meter_cols) ==
  LET c == ColIndex(df.columns, ParsedTimestamp)
      instants == [r \in 1..Len(df.rows) |-> df.rows[r][c]]
  IN [ filename |-> Basename(csv_name),
       time_range |-> <<Strftime(Min(instants)), Strftime(Max(instants))>>,
       meters |-> meter_cols,
       rows |-> Len(df.rows) ]

\* The records of one file: a dict per row, 'Timestamp' first, then the meters.
Records(df, meter_cols) ==
  LET c == ColIndex(df.columns, ParsedTimestamp)
  IN [r \in 1..Len(df.rows) |->
        [ Timestamp |-> df.rows[r][c],
          meters |-> meter_cols,
          vals |-> [m \in Range(meter_cols) |->
                      df.rows[r][ColIndex(df.columns, m)]] ]]

\* What the handler of "except Exception" reports.
OnException(csv_name, exc) ==
  << [Msg("warning", "exception", csv_name) EXCEPT !.exc = exc],
     [Msg("write", "traceback", csv_name) EXCEPT !.exc = exc] >>

\* What is reported when rows were dropped for their timestamps.
OnDropped(csv_name, dropped, examples) ==
  IF dropped = 0 THEN <<>>
  ELSE << [Msg("warning", "dropped_rows", csv_name) EXCEPT !.n = dropped] >> \o
       (IF examples = <<>> THEN <<>>
        ELSE << [Msg("write", "invalid_examples", csv_name) EXCEPT
                   !.examples = SubSeq(examples, 1, IF Len(examples) < 3 THEN Len(examples) ELSE 3)] >>)

\* The result of one pass of the loop over csv_files.
Outcome(data, meters, info, msgs) ==
  [all_data |-> data, all_meters |-> meters, file_info |-> info, st |-> msgs]

\* Faulty variant of Accumulate: all_meters is updated from the new labels before they
\* are assigned to the table.
AccumulateUpdateFirst(csv_name, df, w, data, meters, info) ==
  LET new == NewColumns(df.columns)
      ren == SetColumns(df, new)
  IN IF ren.exc # "none"
     THEN Outcome(data, meters \cup Range(Tail(new)), info,
                  w \o OnException(csv_name, ren.exc))
     ELSE Outcome(data \o Records(ren.df, Tail(new)), meters \cup Range(Tail(new)),
                  Append(info, FileInfo(csv_name, ren.df, Tail(new))), w)

\* The second half of the loop body, for the table df left after the rows with
\* invalid timestamps are dropped (w: what was reported so far): rename the
\* columns, note the meters, convert the values, append the summary and the
\* records.  An exception on the way is caught by "except Exception".
Accumulate(csv_name, df, w, data, meters, info) ==
  LET ren == SetColumns(df, NewColumns(df.columns)) IN
  IF ren.exc # "none"
  THEN Outcome(data, meters, info, w \o OnException(csv_name, ren.exc))
  ELSE
  LET meter_cols == Tail(ren.df.columns)
      meters2 == meters \cup Range(meter_cols)
      conv == ConvertMeters(ren.df)
  IN
  IF conv.exc # "none"
  THEN Outcome(data, meters2, info, w \o OnException(csv_name, conv.exc))
  ELSE Outcome(data \o Records(conv.df, meter_cols), meters2,
               Append(info, FileInfo(csv_name, conv.df, meter_cols)), w)

\* The body of the loop over csv_files for the entry csv_name holding f, from
\* the accumulators data, meters, info: the accumulators after it and what it
\* reported.
ProcessOne(csv_name, f, data, meters, info) ==
  IF FirstEncoding(f) = 0
  THEN Outcome(data, meters, info, <<Msg("warning", "encoding", csv_name)>>)
  ELSE
  LET read == ReadCsv(f) IN
  IF read.exc = "ParserError"
  THEN Outcome(data, meters, info, <<Msg("warning", "parser_error", csv_name)>>)
  ELSE
  LET tc == FindTimestampCol(read.df.columns) IN
  IF tc = 0
  THEN Outcome(data, meters, info, <<Msg("warning", "no_timestamp_column", csv_name)>>)
  ELSE
  LET df1 == MoveFirst(read.df, tc)
      p == ParseTimestamps(df1)
  IN
  IF p.exc # "none"
  THEN Outcome(data, meters, info, OnException(csv_name, p.exc))
  ELSE
  LET df2 == SetItem(df1, ParsedTimestamp, p.parsed)
      df3 == DropInvalid(df2)
      w == OnDropped(csv_name, Len(df2.rows) - Len(df3.rows),
                     [k \in 1..Len(p.invalid) |-> df1.rows[p.invalid[k]][1]])
  IN
  IF Len(df3.rows) = 0
  THEN Outcome(data, meters, info,
               w \o <<Msg("warning", "no_valid_timestamps", csv_name)>>)
  ELSE Accumulate(csv_name, df3, w, data, meters, info)

\* ------------------------------------------------------------ MergeEngine
RECURSIVE FrameColumns(_, _)
\* The meter columns of pd.DataFrame(all_data): the keys of the records in the
\* order in which they are first seen.
FrameColumns(data, cols) ==
  IF data = <<>> THEN cols
  ELSE FrameColumns(Tail(data),
         cols \o SelectSeq(Head(data).meters, LAMBDA m : m \notin Range(cols)))

\* A missing value of the combined table.
NaN == [nan |-> TRUE, v |-> 0]

\* pd.DataFrame(all_data): one row per record, NaN where a record lacks a key.
DataFrame(data) ==
  LET cols == FrameColumns(data, <<>>)
  IN [ columns |-> cols,
       rows |-> [r \in 1..Len(data) |->
                   [ Timestamp |-> data[r].Timestamp,
                     vals |-> [m \in Range(cols) |->
                                 IF m \in DOMAIN data[r].vals THEN data[r].vals[m]
                                 ELSE NaN] ]] ]

\* The orders in which a set may be iterated.
Orders(S) == {s \in [1..Cardinality(S) -> S] : Range(s) = S}

\* The loop over all_meters: each meter that is no column yet becomes a column
\* of zeros, in the order the set yields them.
AddMissing(frame, order) ==
  [ columns |-> frame.columns \o order,
    rows |-> [r \in 1..Len(frame.rows) |->
                [ Timestamp |-> frame.rows[r].Timestamp,
                  vals |-> [m \in Range(frame.columns) \cup Range(order) |->
                              IF m \in Range(frame.columns) THEN frame.rows[r].vals[m]
                              ELSE [nan |-> FALSE, v |-> 0]] ]] ]

\* rows without the first occurrence of row.
RemoveOne(rows, row) ==
  LET k == CHOOSE i \in 1..Len(rows) : rows[i] = row /\ \A j \in 1..(i - 1) : rows[j] # row
  IN SubSeq(rows, 1, k - 1) \o SubSeq(rows, k + 1, Len(rows))

\* Faulty variant of SortValues: the sort is left out.
SortValuesOmitted(rows) == {rows}

\* Faulty variant of SortValues: after the sort, of the rows that share a timestamp
\* only the last is kept (drop_duplicates(keep='last')).
SortValuesKeepLast(rows) ==
  LET order == SelectSeq([r \in 1..Len(rows) |-> r],
                         LAMBDA r : \A q \in (r + 1)..Len(rows) :
                                       rows[q].Timestamp # rows[r].Timestamp)
      kept == [k \in 1..Len(order) |-> rows[order[k]]]
      stamps == {kept[k].Timestamp : k \in 1..Len(kept)}
  IN {[k \in 1..Len(kept) |->
         LET t == CHOOSE x \in stamps : Cardinality({y \in stamps : y < x}) = k - 1
         IN kept[CHOOSE q \in 1..Len(kept) : kept[q].Timestamp = t]]}

RECURSIVE SortValues(_)
\* sort_values(by='Timestamp') with the default, unstable, quicksort: every
\* arrangement of the rows that is ascending in Timestamp.
SortValues(rows) ==
  IF rows = <<>> THEN {<<>>}
  ELSE LET lo == Min([r \in 1..Len(rows) |-> rows[r].Timestamp])
           firsts == {rows[r] : r \in {q \in 1..Len(rows) : rows[q].Timestamp = lo}}
       IN UNION {{<<row>> \o rest : rest \in SortValues(RemoveOne(rows, row))} : row \in firsts}

\* combined_df.duplicated(subset=['Timestamp']).sum()
DuplicateCount(rows) ==
  Len(rows) - Cardinality({rows[r].Timestamp : r \in 1..Len(rows)})

\* Faulty variant of NothingProcessed: the run is given up as soon as one file failed.
NothingProcessedStrict(data, info, files) == Len(info) < Len(files)

\* The test after the loop that ends the run with "No valid CSV files
\* processed."
NothingProcessed(data, info, files) == data = <<>>

\* ------------------------------------------------------------------ state
VARIABLES
  uploaded,     \* what was uploaded: "zip", or "bad" for a file that is no ZIP
  namelist,     \* zip_ref.namelist()
  pc,           \* "start", "loop", "done" (exported) or "error" (st.error)
  csv_files,    \* the candidate entries
  i,            \* how many candidates the loop has been through
  all_data,     \* the records of the files processed so far
  all_meters,   \* the set of meter names
  file_info,    \* the per-file summaries
  st,           \* the warnings, errors and notes shown, in order
  combined_df,  \* <<>> until the merge, then <<the combined table>>
  artifact,     \* <<>>, or <<the exported workbook>>
  opened        \* the contents read from the archive, in order

vars == <<uploaded, namelist, pc, csv_files, i, all_data, all_meters, file_info,
          st, combined_df, artifact, opened>>

\* The listings explored: up to MaxEntries distinct entry names.
Listings ==
  {s \in SeqsUpTo(EntryNames, MaxEntries) :
     \A a, b \in 1..Len(s) : a # b => s[a] # s[b]}

Init ==
  /\ uploaded \in {"zip", "bad"}
  /\ namelist \in (IF uploaded = "zip" THEN Listings ELSE {<<>>})
  /\ pc = "start"
  /\ csv_files = <<>>
  /\ i = 0
  /\ all_data = <<>>
  /\ all_meters = {}
  /\ file_info = <<>>
  /\ st = <<>>
  /\ combined_df = <<>>
  /\ artifact = <<>>
  /\ opened = <<>>

\* zipfile.ZipFile raises BadZipFile.
BadZip ==
  /\ pc = "start" /\ uploaded = "bad"
  /\ st' = Append(st, Msg("error", "bad_zip", <<>>))
  /\ pc' = "error"
  /\ UNCHANGED <<uploaded, namelist, csv_files, i, all_data, all_meters, file_info,
                 combined_df, artifact, opened>>

\* The listing is filtered; an empty result ends the run.
Locate ==
  /\ pc = "start" /\ uploaded = "zip"
  /\ csv_files' = CsvFiles(namelist)
  /\ IF csv_files' = <<>>
     THEN /\ st' = Append(st, Msg("error", "no_csv_files", <<>>))
          /\ pc' = "error"
     ELSE /\ st' = st
          /\ pc' = "loop"
  /\ UNCHANGED <<uploaded, namelist, i, all_data, all_meters, file_info,
                 combined_df, artifact, opened>>

\* One pass of the loop over csv_files: the entry is read and processed.  With
\* record, the content read is appended to the history opened.
ProcessFileOf(record) ==
  /\ pc = "loop" /\ i < Len(csv_files)
  /\ \E f \in FileSet :
       LET out == ProcessOne(csv_files[i + 1], f, all_data, all_meters, file_info)
       IN /\ all_data' = out.all_data
          /\ all_meters' = out.all_meters
          /\ file_info' = out.file_info
          /\ st' = st \o out.st
          /\ opened' = IF record THEN Append(opened, f) ELSE opened
  /\ i' = i + 1
  /\ UNCHANGED <<uploaded, namelist, pc, csv_files, combined_df, artifact>>

ProcessFile == ProcessFileOf(FALSE)

ProcessFileRecorded == ProcessFileOf(TRUE)

\* After the loop, with no record collected: the run ends with an error.
NoValidInput ==
  /\ pc = "loop" /\ i = Len(csv_files)
  /\ NothingProcessed(all_data, file_info, csv_files)
  /\ st' = Append(st, Msg("error", "no_valid_files", <<>>))
  /\ pc' = "error"
  /\ UNCHANGED <<uploaded, namelist, csv_files, i, all_data, all_meters, file_info,
                 combined_df, artifact, opened>>

\* After the loop, with records: the table is built, completed, sorted,
\* checked for duplicate timestamps, shown and exported.
Combine ==
  /\ pc = "loop" /\ i = Len(csv_files)
  /\ ~NothingProcessed(all_data, file_info, csv_files)
  /\ LET frame == DataFrame(all_data)
     IN \E order \in Orders(all_meters \ Range(frame.columns)) :
          LET full == AddMissing(frame, order)
          IN \E sorted \in SortValues(full.rows) :
               LET final == [full EXCEPT !.rows = sorted]
               IN /\ combined_df' = <<final>>
                  /\ st' = st \o
                       (IF DuplicateCount(sorted) > 0
                        THEN << [Msg("warning", "duplicate_timestamps", <<>>) EXCEPT
                                   !.n = DuplicateCount(sorted)] >>
                        ELSE <<>>)
                  /\ artifact' = << [Combined_Data |-> final, File_Summary |-> file_info] >>
  /\ pc' = "done"
  /\ UNCHANGED <<uploaded, namelist, csv_files, i, all_data, all_meters, file_info, opened>>

Next == BadZip \/ Locate \/ ProcessFile \/ NoValidInput \/ Combine

Spec == Init /\ [][Next]_vars

\* The same program with the history of the contents read kept in opened.
NextRecorded == BadZip \/ Locate \/ ProcessFileRecorded \/ NoValidInput \/ Combine

SpecRecorded == Init /\ [][NextRecorded]_vars

\* ================================================================ claims
\* The kinds of warning that report a skipped file.
SkipKinds == {"encoding", "parser_error", "no_timestamp_column",
              "no_valid_timestamps", "exception"}

\* The run is over.
Finished == pc \in {"done", "error"}

\* ---------------------------------------------------------------- C9
\* What the claim calls a candidate, read off the name's tokens: the last
\* token is the extension .csv in either case, no token is the metadata
\* folder in either case, and the token after the last folder does not begin
\* with a dot.
C9_Qualifies(f) ==
  /\ f[Len(f)] \in {".csv", ".CSV"}
  /\ \A k \in 1..Len(f) : f[k] \notin {"__MACOSX/", "__macosx/"}
  /\ LET folders == {k \in 1..Len(f) : f[k] \in {"data/", "__MACOSX/", "__macosx/"}}
     IN \A k \in 1..Len(f) :
          (k - 1 \in folders \/ k = 1) /\ (\A j \in folders : j < k)
             => f[k] \notin {".csv", ".CSV", ".txt", "._a", ".b"}

\* C9: once the listing is filtered, csv_files holds exactly the names of the
\* listing that end in .csv (any case), contain no MACOSX (any case) and whose
\* base name does not start with ".", in listing order; and when there is
\* none, the run has ended with the no-CSV-files error, nothing was processed
\* and nothing exported.
C9_Candidates ==
  (pc # "start" /\ uploaded = "zip") =>
     /\ csv_files = SelectSeq(namelist, C9_Qualifies)
     /\ csv_files = <<>> =>
          /\ pc = "error"
          /\ st = << Msg("error", "no_csv_files", <<>>) >>
          /\ i = 0 /\ all_data = <<>> /\ file_info = <<>> /\ artifact = <<>>

\* C9 witness: a listing of metadata entries only has ended in the error.
C9_Witness ==
  /\ pc = "error" /\ uploaded = "zip" /\ namelist # <<>>
  /\ \A k \in 1..Len(namelist) : namelist[k][1] \in {"__MACOSX/", "__macosx/"}
  /\ csv_files = <<>>

\* ---------------------------------------------------------------- C1
\* The k-th candidate was skipped with a warning that names it.
C1_Skipped(k) ==
  \E m \in 1..Len(st) :
     st[m].level = "warning" /\ st[m].kind \in SkipKinds /\ st[m].file = csv_files[k]

\* The k-th candidate contributed rows: it has a summary with rows.
C1_Contributed(k) ==
  \E e \in 1..Len(file_info) :
     file_info[e].filename = Basename(csv_files[k]) /\ file_info[e].rows > 0

\* C1: every candidate the loop has been through was either skipped with a
\* warning naming it or contributed rows, never both; a run that has ended
\* went through every candidate; and it ended in the no-valid-input error,
\* without an artifact, exactly when no candidate contributed rows.
C1_FailuresIsolated ==
  (uploaded = "zip" /\ csv_files # <<>>) =>
     /\ \A k \in 1..i : C1_Skipped(k) # C1_Contributed(k)
     /\ \A k \in (i + 1)..Len(csv_files) : ~C1_Skipped(k) /\ ~C1_Contributed(k)
     /\ Finished =>
          /\ i = Len(csv_files)
          /\ pc = "error" <=> ~\E k \in 1..i : C1_Contributed(k)
          /\ pc = "error" =>
               /\ artifact = <<>> /\ combined_df = <<>>
               /\ st[Len(st)] = Msg("error", "no_valid_files", <<>>)
          /\ pc = "done" => artifact # <<>>

\* C1 witness: a run has exported although its first candidate was skipped.
C1_Witness ==
  /\ pc = "done" /\ Len(csv_files) >= 2
  /\ C1_Skipped(1) /\ C1_Contributed(2)

\* ---------------------------------------------------------------- C10
\* A pass of the loop that skipped its file.
C10_SkipStep ==
  /\ pc = "loop" /\ i' = i + 1
  /\ \E m \in (Len(st) + 1)..Len(st') :
       st'[m].level = "warning" /\ st'[m].kind \in SkipKinds

RECURSIVE C10_SumRows(_)
C10_SumRows(info) == IF info = <<>> THEN 0 ELSE Head(info).rows + C10_SumRows(Tail(info))

\* The records the e-th processed file appended.
C10_RecordsOf(e) ==
  LET before == C10_SumRows(SubSeq(file_info, 1, e - 1))
  IN SubSeq(all_data, before + 1, before + file_info[e].rows)

\* The accumulators agree with each other: all_meters is the union of the
\* summaries' meters, the summaries' rows add up to the records, each record
\* carries the meters of its file's summary, and the combined table has no
\* meter column beyond those of the summaries.
C10_Consistent ==
  /\ all_meters = UNION {Range(file_info[e].meters) : e \in 1..Len(file_info)}
  /\ C10_SumRows(file_info) = Len(all_data)
  /\ \A e \in 1..Len(file_info) :
       \A r \in 1..Len(C10_RecordsOf(e)) :
          C10_RecordsOf(e)[r].meters = file_info[e].meters
  /\ \A c \in 1..Len(combined_df) :
       Range(combined_df[c].columns) \subseteq
          UNION {Range(file_info[e].meters) : e \in 1..Len(file_info)}

\* C10: a pass of the loop that skips its file leaves all_data, all_meters and
\* file_info as they were, and the accumulators always agree with each other.
C10_AllOrNothing ==
  /\ [][C10_SkipStep => UNCHANGED <<all_data, all_meters, file_info>>]_vars
  /\ []C10_Consistent

\* C10 witness: the second candidate was skipped after the first contributed.
C10_Witness ==
  /\ i = 2 /\ Len(file_info) = 1
  /\ file_info[1].filename = Basename(csv_files[1])
  /\ C1_Skipped(2)

\* ---------------------------------------------------------------- C3
\* The timestamps of the combined table, row by row.
MergedStamps ==
  [r \in 1..Len(combined_df[1].rows) |-> combined_df[1].rows[r].Timestamp]

\* C3 as stated: the rows of the combined table, as shown and as exported,
\* are in strictly ascending order of instant.
C3_StrictlyAscending ==
  combined_df # <<>> =>
     /\ \A r \in 1..(Len(MergedStamps) - 1) : MergedStamps[r] < MergedStamps[r + 1]
     /\ artifact[1].Combined_Data = combined_df[1]

\* C3 amended: the rows of the combined table, as shown and as exported, are
\* in ascending order of instant, and rows that share an instant are all
\* kept: the table has one row for every record collected.
C3_Ascending ==
  combined_df # <<>> =>
     /\ \A r \in 1..(Len(MergedStamps) - 1) : MergedStamps[r] <= MergedStamps[r + 1]
     /\ Len(MergedStamps) = Len(all_data)
     /\ \A t \in Range(MergedStamps) :
          Cardinality({r \in 1..Len(MergedStamps) : MergedStamps[r] = t})
            = Cardinality({r \in 1..Len(all_data) : all_data[r].Timestamp = t})
     /\ artifact[1].Combined_Data = combined_df[1]

\* C3 witness: a combined table built from two files whose records were not
\* collected in ascending order, with two rows of the same instant.
C3_Witness ==
  /\ combined_df # <<>> /\ Len(file_info) = 2
  /\ \E r \in 1..(Len(all_data) - 1) : all_data[r].Timestamp > all_data[r + 1].Timestamp
  /\ \E r \in 1..(Len(MergedStamps) - 1) : MergedStamps[r] = MergedStamps[r + 1]

\* ---------------------------------------------------------------- C4
\* The instants of the e-th processed file, row by row.
C4_Stamps(e) ==
  [r \in 1..Len(C10_RecordsOf(e)) |-> C10_RecordsOf(e)[r].Timestamp]

\* Two files were processed, neither repeats an instant, and they share
\* exactly one instant.
C4_ShareOneInstant ==
  /\ combined_df # <<>> /\ Len(file_info) = 2
  /\ \A e \in 1..2 : Cardinality(Range(C4_Stamps(e))) = Len(C4_Stamps(e))
  /\ Cardinality(Range(C4_Stamps(1)) \cap Range(C4_Stamps(2))) = 1

\* The rows of the combined table at the instant two files share.
C4_SharedRows ==
  {r \in 1..Len(MergedStamps) :
     MergedStamps[r] \in Range(C4_Stamps(1)) \cap Range(C4_Stamps(2))}

\* C4 as stated: two processed files that share exactly one instant give
\* rows(F1) + rows(F2) - 1 rows, the shared instant having a single row, which
\* carries the later file's value for every meter that file reports.
C4_LastWriteWins ==
  C4_ShareOneInstant =>
     /\ Len(MergedStamps) = file_info[1].rows + file_info[2].rows - 1
     /\ Cardinality(C4_SharedRows) = 1
     /\ \A r \in C4_SharedRows :
          \E q \in 1..Len(C10_RecordsOf(2)) :
             /\ C10_RecordsOf(2)[q].Timestamp = MergedStamps[r]
             /\ \A m \in Range(file_info[2].meters) :
                  combined_df[1].rows[r].vals[m] = C10_RecordsOf(2)[q].vals[m]

\* C4 amended: two processed files that share exactly one instant give
\* rows(F1) + rows(F2) rows: the shared instant has two rows, one from each
\* file, and neither replaces the other.
C4_BothRowsKept ==
  C4_ShareOneInstant =>
     /\ Len(MergedStamps) = file_info[1].rows + file_info[2].rows
     /\ Cardinality(C4_SharedRows) = 2

\* C4 witness: a combined table of two files that share exactly one instant,
\* one of them with a second instant.
C4_Witness ==
  /\ C4_ShareOneInstant
  /\ file_info[1].rows + file_info[2].rows >= 3

\* ------------------------------------------- the files read, as the claims
\* ------------------------------------------- of C2, C5, C6, C7, C8 see them
\* The timestamp cells that match the format, and their instants.
ValidStamps == {TS1, TS2}
InstantOf(cell) == IF cell = TS1 THEN 150 ELSE 180

\* The position of f's timestamp column, 0 when it has none.
TsColOf(f) == FindTimestampCol(f.columns)

\* The rows of f whose timestamp parses.
GoodRows(f) == {r \in 1..Len(f.rows) : f.rows[r][TsColOf(f)] \in ValidStamps}

\* A file the specification lets through: it parses as CSV, has a timestamp
\* column and at least one row whose timestamp parses.
Processable(f) == ~f.malformed /\ TsColOf(f) # 0 /\ GoodRows(f) # {}

\* The positions of f's value columns, in order.
ValueCols(f) == SelectSeq([c \in 1..Len(f.columns) |-> c], LAMBDA c : c # TsColOf(f))

\* The canonical meter ids of f, in column order.
MetersOf(f) ==
  [k \in 1..Len(ValueCols(f)) |->
     SelectSeq(f.columns[ValueCols(f)[k]],
               LAMBDA t : t # " - Consumption Recorded (MWh)")]

\* The summary of the k-th file read, as a set (empty when it has none).
SummaryOf(k) ==
  {file_info[e] : e \in {x \in 1..Len(file_info) :
                           file_info[x].filename = Basename(csv_files[k])}}

\* ---------------------------------------------------------------- C8
\* C8: every file read that has a timestamp column and k >= 1 value columns
\* (and whose timestamps all parse) is reconciled to the timestamp column
\* followed by its k value columns in their order, suffix stripped: its
\* summary lists exactly those meters; a file without a timestamp column is
\* skipped.
C8_Reconciled ==
  \A k \in 1..Len(opened) :
     LET f == opened[k]
     IN ~f.malformed =>
          IF TsColOf(f) = 0
          THEN C1_Skipped(k) /\ SummaryOf(k) = {}
          ELSE (Len(f.rows) > 0 /\ GoodRows(f) = 1..Len(f.rows)
                   /\ MetersOf(f) # <<>>) =>
                  /\ SummaryOf(k) # {}
                  /\ \A e \in SummaryOf(k) : e.meters = MetersOf(f)

\* ---------------------------------------------------------------- C5
\* C5: of every file read that has a timestamp column and a timestamp cell
\* that does not parse (an empty cell included), the rows of those cells are
\* dropped and counted in a warning naming the file, its other rows are kept,
\* and the file is skipped only when no row is left.
C5_RowsDroppedOnly ==
  \A k \in 1..Len(opened) :
     LET f == opened[k]
         bad == Len(f.rows) - Cardinality(GoodRows(f))
     IN (~f.malformed /\ TsColOf(f) # 0 /\ bad > 0) =>
          /\ \E m \in 1..Len(st) :
                /\ st[m].kind = "dropped_rows" /\ st[m].file = csv_files[k]
                /\ st[m].n = bad
          /\ IF GoodRows(f) = {}
             THEN C1_Skipped(k)
             ELSE /\ ~C1_Skipped(k)
                  /\ SummaryOf(k) # {}
                  /\ \A e \in SummaryOf(k) : e.rows = Cardinality(GoodRows(f))

\* ---------------------------------------------------------------- C2
\* Two well-formed files, each with meters, the meters disjoint, over the same
\* instants were read.
C2_Scenario ==
  /\ Finished /\ Len(opened) = 2
  /\ \A k \in 1..2 :
       /\ Processable(opened[k])
       /\ MetersOf(opened[k]) # <<>>
       /\ GoodRows(opened[k]) = 1..Len(opened[k].rows)
       /\ \A r \in 1..Len(opened[k].rows) :
            \A c \in Range(ValueCols(opened[k])) : opened[k].rows[r][c] \in {"0", "5"}
       /\ \A r, q \in 1..Len(opened[k].rows) :
            r # q => opened[k].rows[r][TsColOf(opened[k])] # opened[k].rows[q][TsColOf(opened[k])]
  /\ Range(MetersOf(opened[1])) \cap Range(MetersOf(opened[2])) = {}
  /\ {opened[1].rows[r][TsColOf(opened[1])] : r \in 1..Len(opened[1].rows)}
       = {opened[2].rows[r][TsColOf(opened[2])] : r \in 1..Len(opened[2].rows)}

\* C2: two well-formed files with disjoint meters over the same instants are
\* both processed, and the combined table has one row per shared instant, the
\* meter columns of both files and no missing value.
C2_AlignedMerge ==
  C2_Scenario =>
     /\ pc = "done" /\ Len(file_info) = 2
     /\ Len(combined_df[1].rows) = Len(opened[1].rows)
     /\ Len(combined_df[1].columns)
          = Len(MetersOf(opened[1])) + Len(MetersOf(opened[2]))
     /\ Range(combined_df[1].columns)
          = Range(MetersOf(opened[1])) \cup Range(MetersOf(opened[2]))
     /\ \A r \in 1..Len(combined_df[1].rows) :
          \A m \in Range(combined_df[1].columns) : ~combined_df[1].rows[r].vals[m].nan

\* ---------------------------------------------------------------- C6
\* The source cells: <<instant, meter, cell>> for every value cell of every
\* row with a parsable timestamp of every processable file read.
C6_SourceCells ==
  UNION { { <<InstantOf(opened[k].rows[r][TsColOf(opened[k])]),
              MetersOf(opened[k])[j],
              opened[k].rows[r][ValueCols(opened[k])[j]]>> :
              r \in GoodRows(opened[k]), j \in 1..Len(ValueCols(opened[k])) } :
          k \in {x \in 1..Len(opened) : Processable(opened[x])} }

\* The cells of the combined table: <<instant, meter, value>>.
C6_MergedCells ==
  UNION { { <<combined_df[c].rows[r].Timestamp, m, combined_df[c].rows[r].vals[m]>> :
              r \in 1..Len(combined_df[c].rows), m \in Range(combined_df[c].columns) } :
          c \in 1..Len(combined_df) }

\* C6: when the run is over, a cell of the combined table is 0 only where a
\* source cell was "0"; every source "0" is a 0 of the combined table; and
\* every source cell that is no number is missing there, not 0.
C6_ZeroIsNotMissing ==
  Finished =>
     /\ \A x \in C6_MergedCells :
          (~x[3].nan /\ x[3].v = 0) =>
             \E y \in C6_SourceCells : y[1] = x[1] /\ y[2] = x[2] /\ y[3] = "0"
     /\ \A y \in C6_SourceCells :
          \E x \in C6_MergedCells :
             /\ x[1] = y[1] /\ x[2] = y[2]
             /\ y[3] = "0" => (~x[3].nan /\ x[3].v = 0)
             /\ y[3] = "abc" => x[3].nan

\* ---------------------------------------------------------------- C7
RECURSIVE C7_FirstSeen(_, _)
\* The canonical meter ids of the processable files among fs, each once, in
\* the order in which they are first seen.
C7_FirstSeen(fs, seen) ==
  IF fs = <<>> THEN seen
  ELSE C7_FirstSeen(Tail(fs),
         IF Processable(Head(fs))
         THEN seen \o SelectSeq(MetersOf(Head(fs)), LAMBDA m : m \notin Range(seen))
         ELSE seen)

\* C7: when the run is over and some file read is processable and reports a
\* meter, the meter columns of the combined table are the canonical meter ids
\* of the processable files, each once, in first-seen order.
C7_MeterUnion ==
  (Finished /\ \E k \in 1..Len(opened) :
                  Processable(opened[k]) /\ MetersOf(opened[k]) # <<>>) =>
     /\ combined_df # <<>>
     /\ combined_df[1].columns = C7_FirstSeen(opened, <<>>)

====
